---- MODULE Spec2Model ----
(***************************************************************************)
(* Model of the document parsers under src/parser: one parser object of    *)
(* one backend (AmazonTextractParser, MistralOCRParser, LlamaDocParser,    *)
(* UnstructuredParser, AzureDocParser), its constructor, process_pdf /     *)
(* process_document and process_directory.                                 *)
(*                                                                         *)
(* Strings are sequences of tokens (each token a TLA+ string), so that     *)
(* f-strings and f.write calls are concatenations: "a.pdf" is              *)
(* <<"a", ".", "pdf">>, a newline is the token "\n".                       *)
(***************************************************************************)
EXTENDS Integers, Sequences, FiniteSets, TLC

\* ------------------------------------------------------------------ bounds
\* Last reading of the wall clock, in ticks.
MaxClock == 2
\* Ticks in one second: datetime.now() has sub-second resolution.
TicksPerSec == 2
\* Longest page list one provider call returns.
MaxPages == 2
\* Largest native page index a provider reports (OCR service: from 0).
MaxIdx == 1
\* process_pdf / process_document invocations in one run of the program.
MaxRuns == 2

\* ------------------------------------------------------------ input values
Backends == {"textract", "mistral", "llama", "unstructured", "azure"}
\* The backends whose class has process_pdf and process_directory.
PdfBackends == Backends \ {"azure"}

PdfA == <<"a", ".", "pdf">>
\* A name with two dots: only the last one starts the extension.
PdfB == <<"a", ".", "b", ".", "pdf">>
Notes == <<"notes", ".", "txt">>
Missing == <<"zz", ".", "pdf">>
\* The input directory (data/ or input/) of the run.
DataDir == {PdfA, PdfB, Notes}
\* File names a caller passes to process_pdf.
CallNames == {PdfA, Missing}
\* Blob names a caller passes to process_document.
BlobNames == {PdfA}

Plain == <<"x">>
\* A page text that itself holds a separator line and a page heading.
Tricky == <<"x", "\n", "\n", "---", "\n", "\n", "## Page ", "2", "\n", "\n", "x">>

\* ---------------------------------------------------------------- helpers
RECURSIVE SeqsUpTo(_, _)
\* All sequences over S of length 0..n.
SeqsUpTo(S, n) ==
    IF n = 0 THEN {<<>>}
    ELSE LET shorter == SeqsUpTo(S, n - 1)
         IN  shorter \cup {Append(s, x) : s \in {t \in shorter : Len(t) = n - 1}, x \in S}

RECURSIVE Flatten(_)
\* Concatenation of a sequence of strings.
Flatten(ss) == IF ss = <<>> THEN <<>> ELSE Head(ss) \o Flatten(Tail(ss))

\* All orders in which a set of names can be enumerated.
Orders(S) ==
    {o \in [1..Cardinality(S) -> S] : \A i, j \in 1..Cardinality(S) : i # j => o[i] # o[j]}

Digits == <<"0", "1", "2", "3", "4", "5", "6", "7", "8", "9">>

RECURSIVE Str(_)
\* str(n) of a natural number: its decimal digits.
Str(n) == IF n < 10 THEN <<Digits[n + 1]>> ELSE Str(n \div 10) \o <<Digits[(n % 10) + 1]>>

\* datetime.now().isoformat(): the reading with its sub-second part (which
\* isoformat leaves out when it is zero).
Isoformat(t) ==
    IF t % TicksPerSec = 0 THEN Str(t \div TicksPerSec)
    ELSE Str(t \div TicksPerSec) \o <<".">> \o Str(t % TicksPerSec)

\* A format without the seconds field, "%Y%m%d_%H%M".
StrftimeMinutes(t) == Str((t \div TicksPerSec) \div 60)

\* datetime.now().strftime("%Y%m%d_%H%M%S"): the reading cut to the second.
Strftime(t) == Str(t \div TicksPerSec)

RECURSIVE LastDot(_)
\* Position of the last "." of a name, 0 when it has none.
LastDot(name) ==
    IF name = <<>> THEN 0
    ELSE IF name[Len(name)] = "." THEN Len(name)
    ELSE LastDot(SubSeq(name, 1, Len(name) - 1))

\* file_name.split('.')[0]: the name cut at its first dot.
SplitFirst(name) ==
    IF \A i \in 1..Len(name) : name[i] # "." THEN name
    ELSE SubSeq(name, 1, (CHOOSE i \in 1..Len(name) :
                             name[i] = "." /\ \A j \in 1..(i - 1) : name[j] # ".") - 1)

\* file_name.rsplit('.', 1)[0]
Rsplit(name) == IF LastDot(name) = 0 THEN name ELSE SubSeq(name, 1, LastDot(name) - 1)

\* Path.glob("*.pdf") on a directory: the names that end in ".pdf".
GlobPdf(dir) ==
    {n \in dir : Len(n) >= 2 /\ n[Len(n)] = "pdf" /\ n[Len(n) - 1] = "."}

\* -------------------------------------------------- the providers' answers
\* One element of what a provider call returns, holding text `t`; the
\* values are the provider's own, so every index the bounds allow may come
\* back at every position.
RawPages(b, t) ==
    CASE b = "textract"     -> {[page_content |-> t, metadata |-> "meta"]}
      [] b = "mistral"      -> [index : 0..MaxIdx, markdown : {t}]
      [] b = "llama"        -> {[text |-> t]}
      [] b = "unstructured" -> {[page_content |-> t]}
      [] b = "azure"        ->
            [page_number : 1..(MaxIdx + 1),
             lines : {<<[content |-> t, bounding_box |-> "box"]>>},
             tables : {<< [cells |-> <<[content |-> t, row_index |-> 0,
                                        column_index |-> 1]>>] >>}]

\* A page of the layout service without lines and tables.
AzureBarePages == [page_number : 1..(MaxIdx + 1), lines : {<<>>}, tables : {<<>>}]

\* The answers of a provider: up to MaxPages pages of plain text, and the
\* one-page answers whose text holds a separator and a heading (for the
\* layout service: whose page is bare).
Responses(b) ==
    SeqsUpTo(RawPages(b, Plain), MaxPages)
    \cup (IF b = "azure" THEN {<<p>> : p \in AzureBarePages}
          ELSE {<<p>> : p \in RawPages(b, Tricky)})

\* What a provider call can raise when the credentials are accepted.
ProviderErrors == {"TransientError", "FatalProviderError"}

\* ------------------------------------------------------------ normalizing
\* enumerate(docs): Python's i is the position minus one, so i + 1 is the
\* position itself.
TextractPages(docs) ==
    [i \in 1..Len(docs) |->
        [page_number |-> (i - 1) + 1,
         content     |-> docs[i].page_content,
         metadata    |-> docs[i].metadata]]

\* The page loop taking its numbers from the end of the answer.
MistralPagesMisnumbered(response) ==
    [i \in 1..Len(response) |->
        [page_number |-> response[Len(response) + 1 - i].index,
         content     |-> response[i].markdown]]

MistralPages(response) ==
    [i \in 1..Len(response) |->
        [page_number |-> response[i].index,
         content     |-> response[i].markdown]]

\* The chunk loop numbering by enumerate's i itself, from 0.
LlamaChunksFromZero(documents) ==
    [i \in 1..Len(documents) |->
        [chunk_number |-> i - 1,
         content      |-> documents[i].text]]

LlamaChunks(documents) ==
    [i \in 1..Len(documents) |->
        [chunk_number |-> (i - 1) + 1,
         content      |-> documents[i].text]]

RECURSIVE JoinLines(_)
\* "\n".join(doc.page_content for doc in docs)
JoinLines(docs) ==
    IF docs = <<>> THEN <<>>
    ELSE IF Len(docs) = 1 THEN docs[1].page_content
    ELSE docs[1].page_content \o <<"\n">> \o JoinLines(Tail(docs))

AzureLines(page) ==
    [k \in 1..Len(page.lines) |->
        [content |-> page.lines[k].content,
         bounding_box |-> page.lines[k].bounding_box]]

AzureTables(page) ==
    [t \in 1..Len(page.tables) |->
        [c \in 1..Len(page.tables[t].cells) |->
            [text         |-> page.tables[t].cells[c].content,
             row_index    |-> page.tables[t].cells[c].row_index,
             column_index |-> page.tables[t].cells[c].column_index]]]

AzurePages(result) ==
    [i \in 1..Len(result) |->
        [page_number |-> result[i].page_number,
         lines       |-> AzureLines(result[i]),
         tables      |-> AzureTables(result[i])]]

\* The results dict a backend builds from the provider's answer `raw` for
\* `name`, the clock reading `t` being what datetime.now() returns.
BuildResults(b, name, raw, t) ==
    CASE b = "textract" ->
            [file_name |-> name, processed_at |-> Isoformat(t), pages |-> TextractPages(raw)]
      [] b = "mistral" ->
            [file_name |-> name, processed_at |-> Isoformat(t), pages |-> MistralPages(raw)]
      [] b = "llama" ->
            [file_name |-> name, processed_at |-> Isoformat(t), chunks |-> LlamaChunks(raw)]
      [] b = "unstructured" ->
            [extracted_content |-> JoinLines(raw)]
      [] b = "azure" ->
            [analyzed_at |-> Isoformat(t), document_url |-> <<"https://blob/">> \o name,
             pages |-> AzurePages(raw)]

\* The page list of a results dict (the chunk list of the Llama backend),
\* as page numbers and texts; the text-only backend has none.
PageNumbers(b, r) ==
    CASE b \in {"textract", "mistral", "azure"} ->
            [i \in 1..Len(r.pages) |-> r.pages[i].page_number]
      [] b = "llama" -> [i \in 1..Len(r.chunks) |-> r.chunks[i].chunk_number]
      [] b = "unstructured" -> <<>>

\* --------------------------------------------------------------- writing
Sep == <<"\n", "\n", "---", "\n", "\n">>

RECURSIVE PageWrites(_, _)
\* The three f.write calls of each page: heading, content, separator.
PageWrites(title, pages) ==
    IF pages = <<>> THEN <<>>
    ELSE << title \o Str(pages[1].number) \o <<"\n", "\n">>, pages[1].content, Sep >>
         \o PageWrites(title, Tail(pages))

Numbered(b, r) ==
    IF b = "llama"
    THEN [i \in 1..Len(r.chunks) |->
            [number |-> r.chunks[i].chunk_number, content |-> r.chunks[i].content]]
    ELSE [i \in 1..Len(r.pages) |->
            [number |-> r.pages[i].page_number, content |-> r.pages[i].content]]

RECURSIVE AzureCellWrites(_)
AzureCellWrites(cells) ==
    IF cells = <<>> THEN <<>>
    ELSE << <<"Row ">> \o Str(cells[1].row_index) \o <<", Col ">>
              \o Str(cells[1].column_index) \o <<": ">> \o cells[1].text \o <<"\n">> >>
         \o AzureCellWrites(Tail(cells))

RECURSIVE AzureTableWrites(_, _)
AzureTableWrites(tables, idx) ==
    IF tables = <<>> THEN <<>>
    ELSE << <<"#### Table ">> \o Str(idx) \o <<"\n", "\n">> >>
         \o AzureCellWrites(tables[1])
         \o AzureTableWrites(Tail(tables), idx + 1)

RECURSIVE AzureLineWrites(_)
AzureLineWrites(lines) ==
    IF lines = <<>> THEN <<>>
    ELSE << lines[1].content \o <<"\n">> >> \o AzureLineWrites(Tail(lines))

RECURSIVE AzurePageWrites(_)
AzurePageWrites(pages) ==
    IF pages = <<>> THEN <<>>
    ELSE << <<"## Page ">> \o Str(pages[1].page_number) \o <<"\n", "\n">>,
            <<"### Text Content", "\n", "\n">> >>
         \o AzureLineWrites(pages[1].lines)
         \o (IF pages[1].tables # <<>>
             THEN << <<"\n", "### Tables", "\n", "\n">> >>
                  \o AzureTableWrites(pages[1].tables, 1)
             ELSE <<>>)
         \o << <<"\n", "---", "\n", "\n">> >>
         \o AzurePageWrites(Tail(pages))

\* The f.write calls of one output file, in order: each element is the
\* string one call writes.
WriteCalls(b, name, r) ==
    CASE b = "textract" ->
            << <<"# Textract Results for ">> \o name \o <<"\n", "\n">>,
               <<"Processed at: ">> \o r.processed_at \o <<"\n", "\n">> >>
            \o PageWrites(<<"## Page ">>, Numbered(b, r))
      [] b = "mistral" ->
            << <<"# OCR Results for ">> \o name \o <<"\n", "\n">> >>
            \o PageWrites(<<"## Page ">>, Numbered(b, r))
      [] b = "llama" ->
            << <<"# Parsing Results for ">> \o name \o <<"\n", "\n">> >>
            \o PageWrites(<<"## Document Chunk ">>, Numbered(b, r))
      [] b = "unstructured" ->
            << r.extracted_content >>
      [] b = "azure" ->
            << <<"# Document Analysis Results", "\n", "\n">>,
               <<"Document: ">> \o name \o <<"\n">>,
               <<"Analyzed at: ">> \o r.analyzed_at \o <<"\n", "\n">> >>
            \o AzurePageWrites(r.pages)

\* The output path: output_dir / f"{base}_{timestamp}{ext}".
OutputFile(b, name, timestamp) ==
    CASE b = "unstructured" -> Rsplit(name) \o <<"_">> \o timestamp \o <<".txt">>
      [] b = "azure"        -> name \o <<"_">> \o timestamp \o <<".md">>
      [] OTHER              -> Rsplit(name) \o <<"_">> \o timestamp \o <<".md">>

\* A provider answer without the fields the backend reads.
Malformed == << [unexpected |-> "shape"] >>

\* ------------------------------------------------------------------ state
VARIABLES
    backend,      \* which parser class the program uses
    creds,        \* the provider credentials of the environment
    storage,      \* AZURE_STORAGE_* are set (read by get_blob_url only)
    pc,           \* where the program is
    mode,         \* "batch": process_pdf was called by process_directory
    queue,        \* process_directory: the files glob has still to yield
    cur,          \* file_name / blob_name of the running call
    raw,          \* the provider's answer (docs, response.pages, ...)
    res,          \* the results dict of the running call
    output_file,  \* its output path
    wpos,         \* f.write calls done on the open output file
    results,      \* process_directory's list
    retval,       \* what the last finished call returned or raised
    outputDir,    \* the output directory: path -> content
    log,          \* logger.error records
    raised,       \* history: file, error kind and call of every exception raised
    submitted,    \* history: the files given to the provider, in call order
    written,      \* history: the output files closed after their last write
    interrupted,  \* history: path and call of every writing cut short
    stampedAt,    \* history: the clock reading `timestamp` was formatted from
    clock,        \* the wall clock, in ticks
    runs,         \* process_pdf / process_document calls started
    batchBase     \* history: `runs` when process_directory was last called

vars == <<backend, creds, storage, pc, mode, queue, cur, raw, res, output_file,
          wpos, results, retval, outputDir, log, raised, submitted, written,
          interrupted, stampedAt, clock, runs, batchBase>>

NoRes == [none |-> TRUE]
NoFile == <<>>
EmptyDir == [p \in {} |-> <<>>]

Init ==
    /\ backend \in Backends
    /\ creds \in {"absent", "valid", "rejected"}
    /\ storage \in (IF backend = "azure" THEN BOOLEAN ELSE {TRUE})
    /\ pc = "new"
    /\ mode = "single"
    /\ queue = <<>>
    /\ cur = NoFile
    /\ raw = <<>>
    /\ res = NoRes
    /\ output_file = NoFile
    /\ wpos = 0
    /\ results = <<>>
    /\ retval = [kind |-> "none"]
    /\ outputDir = EmptyDir
    /\ log = <<>>
    /\ raised = <<>>
    /\ submitted = <<>>
    /\ written = <<>>
    /\ interrupted = <<>>
    /\ stampedAt = 0
    /\ clock = 0
    /\ runs = 0
    /\ batchBase = 0

\* The locals of a call that has ended.
ClearCall ==
    /\ raw' = <<>>
    /\ res' = NoRes
    /\ output_file' = NoFile
    /\ wpos' = 0

\* `break` in place of `continue`: the loop ends at the first failure.
AfterErrorBreak(rest) == <<>>

\* `continue` in process_directory's except clause: the files the loop
\* still visits after one has failed.
AfterError(rest) == rest

\* An exception of kind `kind` leaves process_pdf / process_document.
\* `handlers` are the except clauses it passes inside that function, each of
\* which logs and re-raises; then process_directory's handler logs it and
\* goes on with the next file, or main's handler logs it and re-raises.
Propagate(kind, handlers) ==
    /\ raised' = Append(raised, [file |-> cur, kind |-> kind, run |-> runs])
    /\ log' = log \o [i \in 1..Len(handlers) |->
                        [site |-> handlers[i], file |-> cur, message |-> kind]]
                  \o << IF mode = "batch"
                        THEN [site |-> "process_directory", file |-> cur, message |-> kind]
                        ELSE [site |-> "main", file |-> NoFile, message |-> kind] >>
    /\ pc' = IF mode = "batch" THEN "loop" ELSE "idle"
    /\ queue' = IF mode = "batch" THEN AfterError(queue) ELSE queue
    /\ retval' = IF mode = "batch" THEN retval ELSE [kind |-> "raised", error |-> kind]
    /\ cur' = NoFile
    /\ ClearCall

\* The except clauses an error of kind `kind` passes on its way out of
\* process_pdf / process_document, innermost first.
Handlers(kind) ==
    CASE backend = "textract" /\ kind \in ProviderErrors \cup {"AuthError"} ->
            <<"process_pdf:ClientError">>
      [] backend = "azure" /\ kind \in ProviderErrors \cup {"AuthError"} ->
            <<"analyze_document:AzureError", "process_document">>
      [] backend = "azure" /\ kind = "NormalizationError" ->
            <<"analyze_document", "process_document">>
      [] backend = "azure" -> <<"process_document">>
      [] OTHER -> <<"process_pdf">>

\* __init__: the credentials are read from the environment; a missing one
\* raises ValueError and no parser exists.
Construct ==
    /\ pc = "new"
    /\ IF creds = "absent"
       THEN /\ pc' = "init_failed"
            /\ retval' = [kind |-> "raised", error |-> "ValueError"]
            /\ raised' = Append(raised, [file |-> NoFile, kind |-> "ValueError", run |-> 0])
            /\ log' = Append(log, [site |-> "main", file |-> NoFile, message |-> "ValueError"])
       ELSE /\ pc' = "idle"
            /\ UNCHANGED <<retval, raised, log>>
    /\ UNCHANGED <<backend, creds, storage, mode, queue, cur, raw, res, output_file,
                   wpos, results, outputDir, submitted, written, interrupted, stampedAt,
                   clock, runs, batchBase>>

\* main (or any caller) calls process_pdf(file_name).
CallProcessPdf(name) ==
    /\ pc = "idle"
    /\ backend \in PdfBackends
    /\ runs < MaxRuns
    /\ mode' = "single"
    /\ cur' = name
    /\ runs' = runs + 1
    /\ pc' = "check"
    /\ UNCHANGED <<backend, creds, storage, queue, raw, res, output_file, wpos, results,
                   retval, outputDir, log, raised, submitted, written, interrupted,
                   stampedAt, clock, batchBase>>

\* main calls process_document(blob_name).
CallProcessDocument(name) ==
    /\ pc = "idle"
    /\ backend = "azure"
    /\ runs < MaxRuns
    /\ mode' = "single"
    /\ cur' = name
    /\ runs' = runs + 1
    /\ pc' = "blob_url"
    /\ UNCHANGED <<backend, creds, storage, queue, raw, res, output_file, wpos, results,
                   retval, outputDir, log, raised, submitted, written, interrupted,
                   stampedAt, clock, batchBase>>

\* process_directory: results = [] and the glob, which yields the *.pdf
\* names in the order the file system enumerates them.
CallProcessDirectory ==
    /\ pc = "idle"
    /\ backend \in PdfBackends
    /\ runs + Cardinality(GlobPdf(DataDir)) <= MaxRuns
    /\ \E order \in Orders(GlobPdf(DataDir)) : queue' = order
    /\ mode' = "batch"
    /\ results' = <<>>
    /\ batchBase' = runs
    /\ pc' = "loop"
    /\ UNCHANGED <<backend, creds, storage, cur, raw, res, output_file, wpos, retval,
                   outputDir, log, raised, submitted, written, interrupted, stampedAt,
                   clock, runs>>

\* The for statement: the next file's process_pdf call, or return results.
LoopNext ==
    /\ pc = "loop"
    /\ IF queue = <<>>
       THEN /\ retval' = [kind |-> "list", value |-> results]
            /\ pc' = "idle"
            /\ mode' = "single"
            /\ UNCHANGED <<queue, cur, runs>>
       ELSE /\ cur' = Head(queue)
            /\ queue' = Tail(queue)
            /\ runs' = runs + 1
            /\ pc' = "check"
            /\ UNCHANGED <<retval, mode>>
    /\ UNCHANGED <<backend, creds, storage, raw, res, output_file, wpos, results,
                   outputDir, log, raised, submitted, written, interrupted, stampedAt,
                   clock, batchBase>>

\* No check of the input path: every name passes.
ExistsUnchecked(name) == TRUE

\* input_path.exists() for a name under the input directory.
Exists(name) == name \in DataDir

\* if not input_path.exists(): raise FileNotFoundError (outside the try).
CheckExists ==
    /\ pc = "check"
    /\ IF Exists(cur)
       THEN /\ pc' = "submit"
            /\ UNCHANGED <<queue, raised, log, retval, cur, raw, res, output_file, wpos>>
       ELSE Propagate("NotFoundError", <<>>)
    /\ UNCHANGED <<backend, creds, storage, mode, results, outputDir, submitted,
                   written, interrupted, stampedAt, clock, runs, batchBase>>

\* get_blob_url: its own except clause logs and re-raises, then
\* process_document's.
GetBlobUrl ==
    /\ pc = "blob_url"
    /\ IF storage
       THEN /\ pc' = "submit"
            /\ UNCHANGED <<queue, raised, log, retval, cur, raw, res, output_file, wpos>>
       ELSE Propagate("ValueError", <<"get_blob_url", "process_document">>)
    /\ UNCHANGED <<backend, creds, storage, mode, results, outputDir, submitted,
                   written, interrupted, stampedAt, clock, runs, batchBase>>

\* The provider call: loader.load(), files.upload .. ocr.process,
\* parser.load_data, begin_analyze_document .. poller.result(). Credentials
\* the provider rejects make every call fail.
Submit ==
    /\ pc = "submit"
    /\ submitted' = Append(submitted, [file |-> cur, run |-> runs])
    /\ IF creds = "rejected"
       THEN Propagate("AuthError", Handlers("AuthError"))
       ELSE \/ \E e \in ProviderErrors : Propagate(e, Handlers(e))
            \/ /\ \E r \in Responses(backend) \cup {Malformed} : raw' = r
               /\ pc' = "build"
               /\ UNCHANGED <<queue, raised, log, retval, cur, res, output_file, wpos>>
    /\ UNCHANGED <<backend, creds, storage, mode, results, outputDir, written,
                   interrupted, stampedAt, clock, runs, batchBase>>

\* results = {...}: processed_at = datetime.now().isoformat() and the page
\* loop. An answer without the fields read raises inside the try block.
Build ==
    /\ pc = "build"
    /\ IF raw = Malformed
       THEN Propagate("NormalizationError", Handlers("NormalizationError"))
       ELSE /\ res' = BuildResults(backend, cur, raw, clock)
            /\ pc' = "stamp"
            /\ UNCHANGED <<queue, raised, log, retval, cur, raw, output_file, wpos>>
    /\ UNCHANGED <<backend, creds, storage, mode, results, outputDir, submitted,
                   written, interrupted, stampedAt, clock, runs, batchBase>>

\* timestamp = datetime.now().strftime(...); output_file = ...
Stamp ==
    /\ pc = "stamp"
    /\ output_file' = OutputFile(backend, cur, Strftime(clock))
    /\ stampedAt' = clock
    /\ pc' = "open"
    /\ UNCHANGED <<backend, creds, storage, mode, queue, cur, raw, res, wpos, results,
                   retval, outputDir, log, raised, submitted, written, interrupted,
                   clock, runs, batchBase>>

\* open(output_file, 'w'): creates the file at the output path, or empties
\* the one that is there; or fails and touches nothing.
Open ==
    /\ pc = "open"
    /\ \/ /\ outputDir' = (output_file :> <<>>) @@ outputDir
          /\ wpos' = 0
          /\ pc' = "write"
          /\ UNCHANGED <<queue, raised, log, retval, cur, raw, res, output_file>>
       \/ /\ Propagate("IOError", Handlers("IOError"))
          /\ UNCHANGED outputDir
    /\ UNCHANGED <<backend, creds, storage, mode, results, submitted, written,
                   interrupted, stampedAt, clock, runs, batchBase>>

\* The next f.write of the with block; when it fails, the with statement
\* closes the file with what was written so far.
Write ==
    /\ pc = "write"
    /\ wpos < Len(WriteCalls(backend, cur, res))
    /\ \/ /\ outputDir' = [outputDir EXCEPT ![output_file] =
                              @ \o WriteCalls(backend, cur, res)[wpos + 1]]
          /\ wpos' = wpos + 1
          /\ UNCHANGED <<pc, queue, raised, log, retval, cur, raw, res, output_file,
                   interrupted>>
       \/ /\ Propagate("IOError", Handlers("IOError"))
          /\ interrupted' = Append(interrupted, [path |-> output_file, run |-> runs])
          /\ UNCHANGED outputDir
    /\ UNCHANGED <<backend, creds, storage, mode, results, submitted, written,
                   stampedAt, clock, runs, batchBase>>

\* What process_pdf / process_document returns.
ReturnValue == IF backend = "unstructured" THEN output_file ELSE res

\* A return that does not wait for the writes.
WritingDoneEarly == TRUE

\* Every f.write of the with block has been made.
WritingDone == wpos = Len(WriteCalls(backend, cur, res))

\* The end of the with block (the file is closed) and `return results`;
\* process_directory appends the value to its list.
Finish ==
    /\ pc = "write"
    /\ WritingDone
    /\ written' = Append(written, [file |-> cur, run |-> runs, path |-> output_file,
                                   at |-> stampedAt, value |-> res,
                                   returned |-> ReturnValue])
    /\ IF mode = "batch"
       THEN /\ results' = Append(results, ReturnValue)
            /\ pc' = "loop"
            /\ UNCHANGED retval
       ELSE /\ retval' = [kind |-> "value", value |-> ReturnValue]
            /\ pc' = "idle"
            /\ UNCHANGED results
    /\ cur' = NoFile
    /\ ClearCall
    /\ UNCHANGED <<backend, creds, storage, mode, queue, outputDir, log, raised,
                   submitted, interrupted, stampedAt, clock, runs, batchBase>>

\* The process is killed while the output file is open: what reached the
\* disk is some prefix of the f.write calls made (the rest was buffered),
\* and nothing of the process's memory is left.
Crash ==
    /\ pc = "write"
    /\ \E k \in 0..wpos :
          outputDir' = [outputDir EXCEPT ![output_file] =
                           Flatten(SubSeq(WriteCalls(backend, cur, res), 1, k))]
    /\ interrupted' = Append(interrupted, [path |-> output_file, run |-> runs])
    /\ pc' = "crashed"
    /\ mode' = "single"
    /\ queue' = <<>>
    /\ results' = <<>>
    /\ cur' = NoFile
    /\ ClearCall
    /\ UNCHANGED <<backend, creds, storage, retval, log, raised, submitted, written,
                   stampedAt, clock, runs, batchBase>>

\* Time passes. The program reads the clock in Build and in Stamp only, so
\* the ticks are taken right before a reading.
Tick ==
    /\ pc \in {"build", "stamp"}
    /\ clock < MaxClock
    /\ clock' = clock + 1
    /\ UNCHANGED <<backend, creds, storage, pc, mode, queue, cur, raw, res, output_file,
                   wpos, results, retval, outputDir, log, raised, submitted, written,
                   interrupted, stampedAt, runs, batchBase>>

Next ==
    \/ Construct
    \/ \E name \in CallNames : CallProcessPdf(name)
    \/ \E name \in BlobNames : CallProcessDocument(name)
    \/ CallProcessDirectory
    \/ LoopNext
    \/ CheckExists
    \/ GetBlobUrl
    \/ Submit
    \/ Build
    \/ Stamp
    \/ Open
    \/ Write
    \/ Finish
    \/ Crash
    \/ Tick

Spec == Init /\ [][Next]_vars

\* ----------------------------------------------------------------- claims
\* The documents of a directory batch.
BatchDocs == GlobPdf(DataDir)
\* process_directory has left its loop and is about to return `results`.
BatchEnd == mode = "batch" /\ pc = "loop" /\ queue = <<>>
\* The exceptions, provider calls and closed files of the running batch.
BatchRaised == {i \in 1..Len(raised) : raised[i].run > batchBase}
BatchSubmitted == {i \in 1..Len(submitted) : submitted[i].run > batchBase}
BatchWritten == {i \in 1..Len(written) : written[i].run > batchBase}
ProviderKinds == ProviderErrors \cup {"AuthError"}

\* C1: a directory batch in which exactly one document fails, and fails in
\* its provider call, ends with one result for every other document
\* (N - 1 results), each of them processed and written, wherever the
\* failing document stands in the iteration order.
C1_BatchIsolation ==
    BatchEnd =>
        \A k \in BatchRaised :
            (BatchRaised = {k} /\ raised[k].kind \in ProviderKinds) =>
                /\ Len(results) = Cardinality(BatchDocs) - 1
                /\ \A d \in BatchDocs \ {raised[k].file} :
                      \E w \in BatchWritten :
                         /\ written[w].file = d
                         /\ \E j \in 1..Len(results) : results[j] = written[w].returned

\* The first document of the iteration failed in the provider call and the
\* batch went on to return the result of the other one.
C1_Witness ==
    /\ BatchEnd
    /\ Cardinality(BatchDocs) >= 2
    /\ \E k \in BatchRaised :
          /\ BatchRaised = {k}
          /\ raised[k].kind = "FatalProviderError"
          /\ raised[k].run = batchBase + 1
    /\ Len(results) = Cardinality(BatchDocs) - 1

\* C2: when authentication fails, no provider call is made for any later
\* document of the batch: with a credential absent no call is made at all,
\* and once the provider has rejected the credentials (which only a call
\* can tell) the batch makes no further call.
C2_AuthShortCircuit ==
    /\ creds = "absent" => submitted = <<>>
    /\ mode = "batch" =>
          \A k \in BatchRaised :
              raised[k].kind = "AuthError" =>
                  \A j \in BatchSubmitted : submitted[j].run <= raised[k].run

\* The failure entries of the value process_directory returns: it returns
\* the list of successes and nothing else.
BatchFailures == <<>>

\* The entries of the returned list that are document d's.
SuccessesOf(d) ==
    {j \in 1..Len(results) :
        \E w \in BatchWritten : written[w].file = d /\ written[w].returned = results[j]}

FailuresOf(d) ==
    {j \in 1..Len(BatchFailures) : BatchFailures[j].file_name = d}

\* C3: when the batch ends, every input document appears exactly once in
\* the successes or in the failures of the value returned.
C3_EveryDocumentAccounted ==
    BatchEnd =>
        \A d \in BatchDocs :
            Cardinality(SuccessesOf(d)) + Cardinality(FailuresOf(d)) = 1

\* The text of the output file of a closed writing.
Artifact(w) == Flatten(WriteCalls(backend, w.file, w.value))

\* Path p is being written by the running call.
BeingWritten(p) == pc = "write" /\ output_file = p

\* C4: after the writing of a document's output was cut short (a crash or
\* an I/O error between open and the last write) no file is at that output
\* path, and the files written before are as they were written.
C4_AtomicWrite ==
    /\ \A i \in 1..Len(interrupted) :
          LET p == interrupted[i].path
          IN  (~BeingWritten(p) /\ \A w \in 1..Len(written) : written[w].path # p)
                  => p \notin DOMAIN outputDir
    /\ \A w \in 1..Len(written) :
          LET p == written[w].path
          IN  (/\ ~BeingWritten(p)
               /\ \A v \in 1..Len(written) : v > w => written[v].path # p
               /\ \A i \in 1..Len(interrupted) :
                     interrupted[i].run > written[w].run => interrupted[i].path # p)
                  => (p \in DOMAIN outputDir /\ outputDir[p] = Artifact(written[w]))

StrictlyIncreasing(ns) == \A i \in 1..(Len(ns) - 1) : ns[i] < ns[i + 1]

\* The page numbers the provider itself reports, in the order of its answer.
NativeNumbers(b, answer) ==
    CASE b = "mistral" -> [i \in 1..Len(answer) |-> answer[i].index]
      [] b = "azure"   -> [i \in 1..Len(answer) |-> answer[i].page_number]
      [] OTHER         -> [i \in 1..Len(answer) |-> i]

\* The page texts the provider reports, in the order of its answer.
NativeTexts(b, answer) ==
    CASE b = "mistral"  -> [i \in 1..Len(answer) |-> answer[i].markdown]
      [] b = "llama"    -> [i \in 1..Len(answer) |-> answer[i].text]
      [] b = "textract" -> [i \in 1..Len(answer) |-> answer[i].page_content]
      [] b = "azure"    ->
            [i \in 1..Len(answer) |->
                [k \in 1..Len(answer[i].lines) |-> answer[i].lines[k].content]]

\* The page texts of a results dict.
PageTexts(b, r) ==
    CASE b \in {"mistral", "textract"} -> [i \in 1..Len(r.pages) |-> r.pages[i].content]
      [] b = "llama" -> [i \in 1..Len(r.chunks) |-> r.chunks[i].content]
      [] b = "azure" ->
            [i \in 1..Len(r.pages) |->
                [k \in 1..Len(r.pages[i].lines) |-> r.pages[i].lines[k].content]]

\* The results dict of the running call exists.
Built == res # NoRes /\ backend # "unstructured"

\* C5 (as stated): the page numbers of every document result are strictly
\* increasing, whatever page sequence the provider returned.
C5_StrictlyIncreasing == Built => StrictlyIncreasing(PageNumbers(backend, res))

\* C5 (amended): the pages of a document result are the provider's pages in
\* the provider's order, numbered 1, 2, ... by the backends that enumerate
\* and with the provider's own numbers by the others; so the numbers are
\* strictly increasing whenever the provider's own numbers are.
C5_ProviderOrderKept ==
    Built =>
        /\ PageNumbers(backend, res) = NativeNumbers(backend, raw)
        /\ PageTexts(backend, res) = NativeTexts(backend, raw)
        /\ StrictlyIncreasing(NativeNumbers(backend, raw))
              => StrictlyIncreasing(PageNumbers(backend, res))

\* The OCR backend has built a result of two pages whose native indices
\* increase.
C5_Witness ==
    /\ Built
    /\ backend = "mistral"
    /\ Len(raw) = 2
    /\ raw[1].index < raw[2].index
    /\ StrictlyIncreasing(PageNumbers(backend, res))

\* The tokens of the file names in the order of their first characters.
TokenOrder == <<".", "a", "b", "notes", "pdf", "txt", "zz">>
Rank(t) == CHOOSE i \in 1..Len(TokenOrder) : TokenOrder[i] = t

RECURSIVE PathLess(_, _)
\* a < b as paths, lexicographically.
PathLess(a, b) ==
    IF b = <<>> THEN FALSE
    ELSE IF a = <<>> THEN TRUE
    ELSE IF a[1] = b[1] THEN PathLess(Tail(a), Tail(b))
    ELSE Rank(a[1]) < Rank(b[1])

\* C6: a directory batch runs the documents' pipelines in lexicographic
\* order of path, whatever order the file system enumerates them in.
C6_LexicographicOrder ==
    mode = "batch" =>
        \A i, j \in BatchSubmitted :
            i < j => ~PathLess(submitted[j].file, submitted[i].file)

\* processed_at (analyzed_at for the layout backend) of a results dict.
ProcessedAt(b, r) == IF b = "azure" THEN r.analyzed_at ELSE r.processed_at

\* An ISO timestamp cut to the second: what stands before the fraction.
TruncToSecond(iso) == IF LastDot(iso) = 0 THEN iso ELSE SubSeq(iso, 1, LastDot(iso) - 1)

\* C7: the timestamp in the name of every output file is the processed_at
\* of the result written into it, cut to the second.
C7_TimestampFromProcessedAt ==
    backend # "unstructured" =>
        \A w \in 1..Len(written) :
            written[w].path =
                OutputFile(backend, written[w].file,
                           TruncToSecond(ProcessedAt(backend, written[w].value)))

\* The clock second in which the writer of w took its timestamp.
SecondOf(w) == w.at \div TicksPerSec

\* No call after w's has opened w's path.
Untouched(w) ==
    /\ ~BeingWritten(w.path)
    /\ \A v \in 1..Len(written) : written[v].run > w.run => written[v].path # w.path
    /\ \A i \in 1..Len(interrupted) :
          interrupted[i].run > w.run => interrupted[i].path # w.path

\* C8: of two writings of the same input file, those stamped in different
\* clock seconds have different paths, and the earlier file stays as it was
\* written; those stamped in the same second have the same path, which then
\* holds the later writing.
C8_NamingDeterminism ==
    \A i, j \in 1..Len(written) :
        (i < j /\ written[i].file = written[j].file) =>
            IF SecondOf(written[i]) # SecondOf(written[j])
            THEN /\ written[i].path # written[j].path
                 /\ Untouched(written[i]) =>
                       /\ written[i].path \in DOMAIN outputDir
                       /\ outputDir[written[i].path] = Artifact(written[i])
            ELSE /\ written[i].path = written[j].path
                 /\ Untouched(written[j]) =>
                       outputDir[written[j].path] = Artifact(written[j])

\* The same file was written twice in different seconds and both files are
\* in the output directory.
C8_Witness ==
    \E i, j \in 1..Len(written) :
        /\ i < j
        /\ written[i].file = written[j].file
        /\ SecondOf(written[i]) # SecondOf(written[j])
        /\ written[i].path \in DOMAIN outputDir
        /\ written[j].path \in DOMAIN outputDir
        /\ outputDir[written[i].path] = Artifact(written[i])

\* What reading an output file back is to recover of the result written.
RoundTripFields(b, w) ==
    <<w.file, ProcessedAt(b, w.value), PageTexts(b, w.value)>>

\* C9: the file name, the processed_at timestamp and the page texts of a
\* document result can be read back from its output file: two writings that
\* left the same text at the same path were of results that agree on them.
C9_RoundTrip ==
    backend # "unstructured" =>
        \A i, j \in 1..Len(written) :
            (/\ written[i].path = written[j].path
             /\ Artifact(written[i]) = Artifact(written[j]))
                => RoundTripFields(backend, written[i]) = RoundTripFields(backend, written[j])

\* The provider calls made for the call that raised raised[k].
Attempts(k) == {j \in 1..Len(submitted) : submitted[j].run = raised[k].run}

\* C10: a document is given up with a transient provider error only after
\* three attempts at its provider call.
C10_TransientRetried ==
    \A k \in 1..Len(raised) :
        raised[k].kind = "TransientError" => Cardinality(Attempts(k)) = 3

\* The backends whose provider yields chunks without page numbers.
Enumerating == {"textract", "llama"}

\* C11: for the Textract loader and Llama Parse, the i-th chunk the
\* provider emitted (counting from 1) has number i in the result: a result
\* of n chunks has the numbers 1, 2, ..., n in emission order.
C11_EmissionOrderNumbers ==
    (res # NoRes /\ backend \in Enumerating) =>
        /\ Len(PageNumbers(backend, res)) = Len(raw)
        /\ \A i \in 1..Len(raw) :
              /\ PageNumbers(backend, res)[i] = i
              /\ PageTexts(backend, res)[i] = NativeTexts(backend, raw)[i]

\* Llama Parse emitted two chunks and the result has been built from them.
C11_Witness ==
    /\ res # NoRes
    /\ backend = "llama"
    /\ Len(raw) = MaxPages
    /\ PageNumbers(backend, res) = <<1, 2>>

\* C12: every page of every document result has page_number >= 1, for
\* every backend.
C12_PageNumberAtLeastOne ==
    Built => \A i \in 1..Len(PageNumbers(backend, res)) : PageNumbers(backend, res)[i] >= 1

\* The running process_pdf call is for a name that is not in the input
\* directory.
SourceMissing == backend \in PdfBackends /\ cur # NoFile /\ cur \notin DataDir

\* C13: for a source document that does not exist, process_pdf fails with
\* the not-found error before the provider is called and before an output
\* file is opened: the call gets no further than its existence check, and
\* a call that raised not-found has contacted no provider and has neither
\* finished nor begun a writing.
C13_NotFoundBeforeAnything ==
    /\ SourceMissing => (pc = "check" /\ output_file = NoFile)
    /\ \A i \in 1..Len(submitted) : submitted[i].file \in DataDir
    /\ \A k \in 1..Len(raised) :
          raised[k].kind = "NotFoundError" =>
              /\ raised[k].file \notin DataDir
              /\ \A i \in 1..Len(submitted) : submitted[i].run # raised[k].run
              /\ \A w \in 1..Len(written) : written[w].run # raised[k].run
              /\ \A i \in 1..Len(interrupted) : interrupted[i].run # raised[k].run
              /\ \A t \in 0..MaxClock :
                    OutputFile(backend, raised[k].file, Strftime(t)) \notin DOMAIN outputDir

\* process_pdf was called for a missing file and raised the not-found error
\* to its caller; the provider was never called and the output directory
\* is empty.
C13_Witness ==
    /\ pc = "idle"
    /\ retval = [kind |-> "raised", error |-> "NotFoundError"]
    /\ \E k \in 1..Len(raised) :
          raised[k].kind = "NotFoundError" /\ raised[k].file = Missing
    /\ submitted = <<>>
    /\ outputDir = EmptyDir

\* The closed writing whose value is the j-th entry of process_directory's
\* list: the batch's writings are the last Len(results) closed ones.
WritingOf(j) == written[Len(written) - Len(results) + j]

\* C14: in a directory batch, at every point of the run, the entries of
\* the results list are, in order, the values of the batch's writings that
\* were closed after their last write; the output file of each of them is
\* on disk with its complete text; and no entry is from a call whose
\* writing was cut short or which raised.
C14_AppendAfterWrite ==
    mode = "batch" =>
        /\ Len(results) = Cardinality(BatchWritten)
        /\ \A j \in 1..Len(results) :
              /\ WritingOf(j).run > batchBase
              /\ results[j] = WritingOf(j).returned
              /\ WritingOf(j).path \in DOMAIN outputDir
              /\ outputDir[WritingOf(j).path] = Artifact(WritingOf(j))
              /\ \A i \in 1..Len(interrupted) : interrupted[i].run # WritingOf(j).run
              /\ \A k \in 1..Len(raised) : raised[k].run # WritingOf(j).run

\* A batch in which the writing of the first document failed and the second
\* document's was completed: the list holds the second one only.
C14_Witness ==
    /\ BatchEnd
    /\ Len(results) = 1
    /\ \E k \in BatchRaised : raised[k].kind = "IOError" /\ raised[k].run = batchBase + 1
    /\ \E i \in 1..Len(interrupted) : interrupted[i].run = batchBase + 1
    /\ WritingOf(1).run = batchBase + 2
    /\ outputDir[WritingOf(1).path] = Artifact(WritingOf(1))

\* The output paths the running batch has opened: of its closed writings,
\* of its writings cut short and of the file now open.
BatchPaths ==
    {[file |-> written[w].file, path |-> written[w].path] : w \in BatchWritten}
    \cup (IF output_file # NoFile THEN {[file |-> cur, path |-> output_file]} ELSE {})

\* C15: within one directory batch, distinct input documents have distinct
\* output paths, also when they are stamped in the same clock second, and
\* the file of every document written in the batch holds that document's
\* text: no document's file is overwritten by another's.
C15_DistinctOutputPaths ==
    mode = "batch" =>
        /\ \A x, y \in BatchPaths : x.file # y.file => x.path # y.path
        /\ \A w \in BatchWritten :
              /\ written[w].path \in DOMAIN outputDir
              /\ outputDir[written[w].path] = Artifact(written[w])
              /\ SubSeq(written[w].file, 1, LastDot(written[w].file) - 1)
                       \o <<"_">> \o Strftime(written[w].at)
                    = SubSeq(written[w].path, 1, Len(written[w].path) - 1)

\* Both documents of a batch, whose names agree up to the first dot, were
\* written in the same clock second, to different paths.
C15_Witness ==
    /\ BatchEnd
    /\ \E v, w \in BatchWritten :
          /\ written[v].file = PdfA
          /\ written[w].file = PdfB
          /\ SplitFirst(PdfA) = SplitFirst(PdfB)
          /\ SecondOf(written[v]) = SecondOf(written[w])
          /\ written[v].path # written[w].path
          /\ outputDir[written[v].path] = Artifact(written[v])
          /\ outputDir[written[w].path] = Artifact(written[w])
====
